---- MODULE Spec2Model ----
(***************************************************************************)
(* Condition evaluation engine of git-achievements:                        *)
(*   - find_nested_json          (src/app/achievement/utils.py)            *)
(*   - ValueCondition.__call__, AttributeCondition.__call__,               *)
(*     CustomCondition.__call__, Achievement.unlocked                      *)
(*                    (src/app/achievement/models/achievement_models.py)   *)
(*                                                                         *)
(* Python values are tagged records: a JSON number is [num |-> n], a       *)
(* string is [str |-> <<chars>>], null is [null |-> TRUE], a list is       *)
(* [list |-> <<values>>] and a mapping is [dict |-> f] with f a function   *)
(* from keys to values.  A key is a Python string, i.e. a sequence of      *)
(* characters.  Results of the evaluators are the strings "True", "False", *)
(* "None", "NotImplemented"; a raised exception is "TypeError".            *)
(***************************************************************************)
EXTENDS Integers, Sequences, FiniteSets, TLC

VARIABLES fnj, call

vars == <<fnj, call>>

-----------------------------------------------------------------------------
(* Bounds *)

\* longest list of an event (the width of a fan-out)
MaxFan == 2

\* longest key path handed to find_nested_json
MaxPath == 2

\* most conditions attached to one achievement
MaxConds == 3

\* most calls made on one condition object
MaxCalls == 2

-----------------------------------------------------------------------------
(* Python values *)

Num(n) == [num |-> n]

Str(s) == [str |-> s]

Null == [null |-> TRUE]

List(s) == [list |-> s]

Dict(f) == [dict |-> f]

IsStr(v) == DOMAIN v = {"str"}

IsList(v) == DOMAIN v = {"list"}

IsDict(v) == DOMAIN v = {"dict"}

KeyA == <<"a">>

KeyB == <<"b">>

KeyC == <<"c">>

\* sequences over S of length lo..hi
SeqsUpTo(S, lo, hi) == UNION {[1..n -> S] : n \in lo..hi}

\* mappings whose keys are a subset of K and whose values are in V
DictsOver(K, V) == {Dict(f) : f \in UNION {[D -> V] : D \in SUBSET K}}

\* Python: sub in s, for two strings
IsSubstring(sub, s) ==
    \E i \in 0..(Len(s) - Len(sub)) : SubSeq(s, i + 1, i + Len(sub)) = sub

\* Python: `key in obj` (utils.py line 30) for a string key.
\* "yes" / "no", or "TypeError" when obj is not iterable.
KeyIn(key, obj) ==
    IF IsDict(obj) THEN (IF key \in DOMAIN obj.dict THEN "yes" ELSE "no")
    ELSE IF IsList(obj)
         THEN (IF \E i \in 1..Len(obj.list) : obj.list[i] = Str(key)
               THEN "yes" ELSE "no")
    ELSE IF IsStr(obj) THEN (IF IsSubstring(key, obj.str) THEN "yes" ELSE "no")
    ELSE "TypeError"

\* Python: obj[key] (utils.py line 35) for a string key: only a mapping
\* can be subscripted by a string.
CanSubscript(obj) == IsDict(obj)

-----------------------------------------------------------------------------
(* find_nested_json, utils.py lines 10-48                                  *)
(* The state of one call is a record:                                      *)
(*   pc          "outer" (line 23), "inner" (line 27) or "done"            *)
(*   enqueued    the deque of (obj, keys) pairs; alias tells whether keys  *)
(*               is the caller's list object (line 20) or a copy (line 39) *)
(*   results     the result list                                           *)
(*   obj, keys, keys_queue   the locals of the loops; alias as above       *)
(*   arg         the contents of the caller's key list, which line 36      *)
(*               mutates through the alias                                 *)
(*   ret         "running", "None", "list" (results is returned) or        *)
(*               "TypeError"                                               *)
(*   event, path the arguments as they were when the call started          *)
(***************************************************************************)

Entry(o, k, al) == [obj |-> o, keys |-> k, alias |-> al]

\* lines 20-21
FnjStart(o, k) ==
    [pc |-> "outer", enqueued |-> <<Entry(o, k, TRUE)>>, results |-> <<>>,
     obj |-> o, keys |-> k, keys_queue |-> <<>>, alias |-> TRUE,
     arg |-> k, ret |-> "running", event |-> o, path |-> k]

\* lines 24-25: popleft and copy the keys into keys_queue
PopEntry(s) ==
    LET e == Head(s.enqueued) IN
    [s EXCEPT !.pc = "inner", !.enqueued = Tail(s.enqueued),
              !.obj = e.obj, !.keys = e.keys, !.alias = e.alias,
              !.keys_queue = e.keys]

\* mutant: an empty result list is returned as it is
ReturnResultsEvenEmpty(s) == [s EXCEPT !.pc = "done", !.ret = "list"]

\* lines 45-48
ReturnResults(s) ==
    [s EXCEPT !.pc = "done",
              !.ret = IF Len(s.results) = 0 THEN "None" ELSE "list"]

\* mutant: a missing key drops the branch and the loop goes on
KeyAbsentSkipsBranch(s) == [s EXCEPT !.pc = "outer", !.keys_queue = <<>>]

\* lines 30-31
KeyAbsent(s) == [s EXCEPT !.pc = "done", !.ret = "None"]

\* an exception leaves the function
Raise(s) == [s EXCEPT !.pc = "done", !.ret = "TypeError"]

\* mutant: the elements are enqueued last first
FanOutReversed(lst, keys) ==
    [i \in 1..Len(lst) |-> Entry(lst[Len(lst) + 1 - i], keys, FALSE)]

\* line 39: one (element, copy of the remaining keys) pair per element
FanOut(lst, keys) == [i \in 1..Len(lst) |-> Entry(lst[i], keys, FALSE)]

\* lines 35-43, the key being present in a mapping
Descend(s) ==
    LET key == Head(s.keys_queue)
        o == s.obj.dict[key]
        ks == Tail(s.keys)
        kq == Tail(s.keys_queue)
        t == [s EXCEPT !.obj = o, !.keys = ks,
                       !.arg = IF s.alias THEN ks ELSE s.arg]
    IN  IF IsList(o)
        THEN [t EXCEPT !.enqueued = s.enqueued \o FanOut(o.list, ks),
                       !.keys_queue = <<>>, !.pc = "outer"]
        ELSE IF Len(kq) = 0
        THEN [t EXCEPT !.results = Append(s.results, o),
                       !.keys_queue = kq, !.pc = "outer"]
        ELSE [t EXCEPT !.keys_queue = kq]

\* one iteration of the inner loop, lines 27-43 (line 27 failing returns
\* to line 23)
ConsumeKey(s) ==
    IF Len(s.keys_queue) = 0 THEN [s EXCEPT !.pc = "outer"]
    ELSE LET in == KeyIn(Head(s.keys_queue), s.obj) IN
         IF in = "TypeError" THEN Raise(s)
         ELSE IF in = "no" THEN KeyAbsent(s)
         ELSE IF ~CanSubscript(s.obj) THEN Raise(s)
         ELSE Descend(s)

FnjStep(s) ==
    IF s.pc = "outer"
    THEN (IF Len(s.enqueued) > 0 THEN PopEntry(s) ELSE ReturnResults(s))
    ELSE ConsumeKey(s)

RECURSIVE FnjRun(_)
FnjRun(s) == IF s.pc = "done" THEN s ELSE FnjRun(FnjStep(s))

\* the whole call: its final state (ret, results, and arg: what the call
\* left of the caller's key list)
find_nested_json(o, k) == FnjRun(FnjStart(o, k))

-----------------------------------------------------------------------------
(* Callables: Method, Qualifier, Quantifier (BaseCallableModel) and the     *)
(* handlers of app.achievement.lib.  A Method is looked up in operator,    *)
(* str and re, a Qualifier in str; the ones used here are operator.eq,     *)
(* operator.ne and str.upper.                                              *)

PyBool(b) == IF b THEN "True" ELSE "False"

UpperChar(c) ==
    CASE c = "x" -> "X" [] c = "y" -> "Y" [] c = "a" -> "A"
      [] c = "b" -> "B" [] c = "c" -> "C" [] OTHER -> c

\* method(*args): "True" / "False", or "TypeError" for a wrong arity
CallMethod(m, args) ==
    IF Len(args) # 2 THEN "TypeError"
    ELSE IF m = "eq" THEN PyBool(args[1] = args[2])
    ELSE PyBool(args[1] # args[2])

\* qualifier(value): str.upper applies to a string only
CallQualifier(q, v) ==
    IF IsStr(v)
    THEN [ok |-> TRUE, v |-> Str([i \in 1..Len(v.str) |-> UpperChar(v.str[i])])]
    ELSE [ok |-> FALSE, v |-> v]

\* quantifier(passed): "any"
CallQuantifier(q, passed) ==
    PyBool(\E i \in 1..Len(passed) : passed[i] = "True")

\* getattr(custom_methods, name)(event): a handler looking at the event
CallHandler(name, event) ==
    PyBool(IsDict(event) /\ KeyC \in DOMAIN event.dict)

-----------------------------------------------------------------------------
(* Conditions, achievement_models.py lines 106-225                         *)
(* The result of a call is [ret, invoked, attributes]: what it returns     *)
(* ("TypeError" when it raises), which callables it invoked, and what the  *)
(* call left of the condition's attribute paths.                           *)

\* Python: s.split('.')
RECURSIVE Split(_)
Split(s) ==
    IF \A i \in 1..Len(s) : s[i] # "." THEN <<s>>
    ELSE LET i == CHOOSE j \in 1..Len(s) :
                    s[j] = "." /\ \A k \in 1..(j - 1) : s[k] # "."
         IN  <<SubSeq(s, 1, i - 1)>> \o Split(SubSeq(s, i + 1, Len(s)))

\* Condition.is_custom, lines 124-125
Condition_is_custom(c) == c.custom

CondResult(r, inv, attrs) == [ret |-> r, invoked |-> inv, attributes |-> attrs]

\* Python: all(passed)
All(passed) == PyBool(\A i \in 1..Len(passed) : passed[i] = "True")

\* lines 169-170
ValueUnresolved == "False"

\* mutant: a missing attribute makes an AttributeCondition false
AttributeUnresolvedFalse == "False"

\* lines 214-215
AttributeUnresolved == "None"

\* lines 174-186: data is the list find_nested_json returned
ValuePassed(c, data) ==
    LET n == Len(data)
        q(i) == IF c.qualifier = "None" THEN [ok |-> TRUE, v |-> data[i]]
                ELSE CallQualifier(c.qualifier, data[i])
        bad == {i \in 1..n : ~q(i).ok}
        passed == [i \in 1..n |-> CallMethod(c.method, <<q(i).v, Str(c.value)>>)]
        inv == {"find_nested_json"}
                 \cup (IF n > 0 /\ c.qualifier # "None" THEN {"qualifier"} ELSE {})
                 \cup (IF \E i \in 1..n : \A j \in 1..i : j \notin bad
                       THEN {"method"} ELSE {})
    IN  IF bad # {} THEN CondResult("TypeError", inv, <<>>)
        ELSE IF c.quantifier # "None"
        THEN CondResult(CallQuantifier(c.quantifier, passed),
                        inv \cup {"quantifier"}, <<>>)
        ELSE CondResult(All(passed), inv, <<>>)

\* ValueCondition.__call__, lines 157-186
ValueCondition_call(c, event) ==
    IF Condition_is_custom(c) THEN CondResult("False", {}, <<>>)
    ELSE LET r == find_nested_json(event, Split(c.attribute)) IN
         IF r.ret = "TypeError"
         THEN CondResult("TypeError", {"find_nested_json"}, <<>>)
         ELSE IF r.ret = "None"
         THEN CondResult(ValueUnresolved, {"find_nested_json"}, <<>>)
         ELSE ValuePassed(c, r.results)

\* lines 211-225: the loop from attribute number i on, then the method
RECURSIVE AttributeLoop(_, _, _, _, _)
AttributeLoop(c, event, i, attrs, results) ==
    IF i > Len(attrs)
    THEN CondResult(CallMethod(c.method, results),
                    {"method"} \cup (IF Len(attrs) > 0 THEN {"find_nested_json"}
                                     ELSE {}),
                    attrs)
    ELSE LET r == find_nested_json(event, attrs[i])
             left == [attrs EXCEPT ![i] = r.arg]
         IN  IF r.ret = "TypeError"
             THEN CondResult("TypeError", {"find_nested_json"}, left)
             ELSE IF r.ret = "None"
             THEN CondResult(AttributeUnresolved, {"find_nested_json"}, left)
             ELSE IF i <= Len(c.qualifiers) /\ c.qualifiers[i] # "None"
             THEN \* str.upper on the list find_nested_json returned
                  CondResult("TypeError", {"find_nested_json", "qualifier"}, left)
             ELSE AttributeLoop(c, event, i + 1, left,
                                Append(results, List(r.results)))

\* AttributeCondition.__call__, lines 198-225
AttributeCondition_call(c, event) ==
    IF Condition_is_custom(c) THEN CondResult("False", {}, c.attributes)
    ELSE AttributeLoop(c, event, 1, c.attributes, <<>>)

\* CustomCondition.__call__, lines 142-143
CustomCondition_call(c, event) ==
    CondResult(CallHandler(c.method, event), {"handler"}, <<>>)

\* AchievementCondition.__call__, lines 259-260
Condition_call(c, event) ==
    CASE c.kind = "ValueCondition" -> ValueCondition_call(c, event)
      [] c.kind = "AttributeCondition" -> AttributeCondition_call(c, event)
      [] c.kind = "CustomCondition" -> CustomCondition_call(c, event)

-----------------------------------------------------------------------------
(* Events and paths the resolver is run on *)

Scalars == {Num(1), Str(<<"x">>), Str(<<"b">>), Null}

\* what the last key of a path may hold
Leaves == Scalars \cup {List(l) : l \in SeqsUpTo({Str(<<"x">>), Str(<<"y">>)}, 0, MaxFan)}

\* what a list of the event may hold
Elems == Scalars \cup DictsOver({KeyB}, Leaves)

Mids == Elems \cup {List(l) : l \in SeqsUpTo(Elems, 0, MaxFan)}

Events == DictsOver({KeyA}, Mids)

Paths == SeqsUpTo({KeyA, KeyB}, 0, MaxPath)

Idle == [pc |-> "idle"]

-----------------------------------------------------------------------------
(* The resolver, one step of find_nested_json at a time *)

InitResolver ==
    /\ fnj \in {FnjStart(e, p) : e \in Events, p \in Paths}
    /\ call = Idle

FnjPop ==
    /\ fnj.pc = "outer" /\ Len(fnj.enqueued) > 0
    /\ fnj' = PopEntry(fnj)
    /\ UNCHANGED call

FnjReturn ==
    /\ fnj.pc = "outer" /\ Len(fnj.enqueued) = 0
    /\ fnj' = ReturnResults(fnj)
    /\ UNCHANGED call

FnjKey ==
    /\ fnj.pc = "inner"
    /\ fnj' = ConsumeKey(fnj)
    /\ UNCHANGED call

NextResolver == FnjPop \/ FnjReturn \/ FnjKey

SpecResolver == InitResolver /\ [][NextResolver]_vars

-----------------------------------------------------------------------------
(* Achievement.unlocked, achievement_models.py lines 370-392               *)

\* the rows of the condition tables, by AchievementCondition id
ValueCond(ty, cu, m, attr, val, ql, qn) ==
    [kind |-> "ValueCondition", event_type |-> ty, custom |-> cu, method |-> m,
     attribute |-> attr, value |-> val, qualifier |-> ql, quantifier |-> qn]

AttributeCond(ty, cu, m, attrs, qls) ==
    [kind |-> "AttributeCondition", event_type |-> ty, custom |-> cu,
     method |-> m, attributes |-> attrs, qualifiers |-> qls]

CustomCond(ty, m) ==
    [kind |-> "CustomCondition", event_type |-> ty, custom |-> TRUE, method |-> m]

Conditions ==
    <<ValueCond("login", FALSE, "eq", <<"a", ".", "b">>, <<"x">>, "None", "None"),
      ValueCond("login", FALSE, "eq", <<"a", ".", "b">>, <<"y">>, "None", "any"),
      ValueCond("login", FALSE, "eq", <<"c">>, <<"X">>, "upper", "None"),
      AttributeCond("login", FALSE, "eq", <<<<KeyA, KeyB>>, <<KeyC>>>>, <<"None">>),
      ValueCond("purchase", FALSE, "ne", <<"c">>, <<"x">>, "None", "None"),
      CustomCond("login", "has_c"),
      ValueCond("login", TRUE, "eq", <<"c">>, <<"x">>, "None", "None")>>

CondIds == 1..Len(Conditions)

EventTypes == {"login", "purchase"}

Groupings == {"__and__", "__or__", "__xor__"}

\* an achievement: its conditions, grouping and achievement_type.custom
Achievements ==
    {[conditions |-> cs, grouping |-> g, custom |-> cu] :
        cs \in {s \in SUBSET CondIds : Cardinality(s) <= MaxConds},
        g \in Groupings, cu \in BOOLEAN}

\* event payloads
Payloads ==
    {Dict(KeyA :> Dict(KeyB :> Str(<<"x">>)) @@ KeyC :> Str(<<"x">>)),
     Dict(KeyA :> Dict(KeyB :> Str(<<"y">>)) @@ KeyC :> Str(<<"x">>)),
     Dict(KeyA :> List(<<Dict(KeyB :> Str(<<"x">>)), Dict(KeyB :> Str(<<"y">>))>>)),
     Dict(KeyA :> List(<<Dict(KeyB :> Str(<<"x">>)), Dict(<<>>)>>)
          @@ KeyC :> Str(<<"y">>)),
     Dict(KeyA :> Dict(KeyB :> List(<<>>)) @@ KeyC :> Str(<<"y">>)),
     Dict(KeyA :> Num(1) @@ KeyC :> Str(<<"x">>)),
     Dict(KeyA :> Dict(KeyB :> Str(<<"x">>)) @@ KeyC :> Num(1)),
     Dict(<<>>)}

\* mutant: no achievement counts as custom
NeverCustom(ach) == FALSE

\* Achievement.is_custom, lines 342-346
Achievement_is_custom(ach) == ach.custom

\* mutant: the satisfied list is ignored
NeverSatisfied(id, satisfied) == FALSE

\* line 387 (negated)
AlreadySatisfied(id, satisfied) == id \in satisfied

\* line 388
TypeMismatch(c, event) == c.event_type # event

IsBool(v) == v \in {"True", "False"}

\* line 381 and its use in line 390: getattr(bool, grouping)(passed, r).
\* The slot wrapper raises TypeError unless passed is a bool, and returns
\* NotImplemented unless r is one.
Group(grouping, passed, r) ==
    IF ~IsBool(passed) THEN "TypeError"
    ELSE IF ~IsBool(r) THEN "NotImplemented"
    ELSE LET x == passed = "True"
             y == r = "True"
         IN  CASE grouping = "__and__" -> PyBool(x /\ y)
               [] grouping = "__or__" -> PyBool(x \/ y)
               [] grouping = "__xor__" -> PyBool(x # y)

(* The state of one call of unlocked is the record call:                   *)
(*   pc       "idle", "loop" (line 386) or "done"                          *)
(*   ach, event, payload, satisfied   self and the arguments               *)
(*   passed   the accumulator                                              *)
(*   todo     the conditions the loop has not come to yet                  *)
(*   evals    for each condition the loop called: what it returned and     *)
(*            the callables it invoked                                     *)
(*   ret      what unlocked returned, "TypeError" when it raised           *)

\* the call leaves unlocked: a return, or an exception ("TypeError")
Leave(c, r) == [c EXCEPT !.pc = "done", !.ret = r]

\* lines 380-384: the call starts; a custom achievement returns at once
UnlockedStart(ach, event, payload, satisfied) ==
    LET c == [pc |-> "loop", ach |-> ach, event |-> event, payload |-> payload,
              satisfied |-> satisfied, passed |-> "True",
              todo |-> ach.conditions, evals |-> <<>>, ret |-> "running"]
    IN  IF Achievement_is_custom(ach) THEN Leave(c, "False") ELSE c

\* line 390 for condition id: cond(payload), then the grouping
UnlockedEvaluate(c, id) ==
    LET r == Condition_call(Conditions[id], c.payload)
        g == Group(c.ach.grouping, c.passed, r.ret)
        d == [c EXCEPT !.todo = c.todo \ {id},
                       !.evals = (id :> [ret |-> r.ret, invoked |-> r.invoked])
                                    @@ c.evals]
    IN  IF r.ret = "TypeError" \/ g = "TypeError" THEN Leave(d, "TypeError")
        ELSE [d EXCEPT !.passed = g]

Init == fnj = Idle /\ call = Idle

\* unlocked(event, payload, satisfied) is called on an achievement
Unlock ==
    /\ call.pc = "idle"
    /\ \E ach \in Achievements, event \in EventTypes, payload \in Payloads :
         \E satisfied \in SUBSET ach.conditions :
            call' = UnlockedStart(ach, event, payload, satisfied)
    /\ UNCHANGED fnj

\* lines 386-387: the next condition is in satisfied and is passed over
Skip ==
    /\ call.pc = "loop"
    /\ \E id \in call.todo :
         /\ AlreadySatisfied(id, call.satisfied)
         /\ call' = [call EXCEPT !.todo = call.todo \ {id}]
    /\ UNCHANGED fnj

\* lines 388-389: the next condition is for another event type
Mismatch ==
    /\ call.pc = "loop"
    /\ \E id \in call.todo :
         /\ ~AlreadySatisfied(id, call.satisfied)
         /\ TypeMismatch(Conditions[id], call.event)
         /\ call' = Leave(call, "False")
    /\ UNCHANGED fnj

\* line 390: the next condition is evaluated and grouped into passed
Evaluate ==
    /\ call.pc = "loop"
    /\ \E id \in call.todo :
         /\ ~AlreadySatisfied(id, call.satisfied)
         /\ ~TypeMismatch(Conditions[id], call.event)
         /\ call' = UnlockedEvaluate(call, id)
    /\ UNCHANGED fnj

\* line 392
Return ==
    /\ call.pc = "loop" /\ call.todo = {}
    /\ call' = Leave(call, call.passed)
    /\ UNCHANGED fnj

Next == Unlock \/ Skip \/ Mismatch \/ Evaluate \/ Return

Spec == Init /\ [][Next]_vars

-----------------------------------------------------------------------------
(* One condition object called again and again on the same event.  The     *)
(* object keeps its fields between the calls; call is then the record      *)
(*   pc          "object"                                                  *)
(*   id, event   the condition and the event of every call                 *)
(*   attributes  self.attributes as the calls so far left it (<<>> for a   *)
(*               condition that has no such field)                         *)
(*   rets        what the calls so far returned, in order                  *)

\* self.attributes of a freshly loaded condition
LoadedAttributes(id) ==
    IF Conditions[id].kind = "AttributeCondition"
    THEN Conditions[id].attributes ELSE <<>>

\* the condition object as the calls so far left it
ConditionObject(o) ==
    IF Conditions[o.id].kind = "AttributeCondition"
    THEN [Conditions[o.id] EXCEPT !.attributes = o.attributes]
    ELSE Conditions[o.id]

\* condition(event) on the object: lines 157-186, 198-225, 142-143
ObjectCalled(o) ==
    LET r == Condition_call(ConditionObject(o), o.event) IN
    [o EXCEPT !.attributes = r.attributes, !.rets = Append(o.rets, r.ret)]

InitObject ==
    /\ fnj = Idle
    /\ call \in {[pc |-> "object", id |-> id, event |-> e,
                  attributes |-> LoadedAttributes(id), rets |-> <<>>] :
                    id \in CondIds, e \in Payloads}

CallObject ==
    /\ call.pc = "object" /\ Len(call.rets) < MaxCalls
    /\ call' = ObjectCalled(call)
    /\ UNCHANGED fnj

NextObject == CallObject

SpecObject == InitObject /\ [][NextObject]_vars

-----------------------------------------------------------------------------
(* Shapes of an event along a path *)

\* some branch of v along p reaches a mapping that lacks the next key
RECURSIVE MissingKey(_, _)
MissingKey(v, p) ==
    IF p = <<>> \/ ~IsDict(v) THEN FALSE
    ELSE IF Head(p) \notin DOMAIN v.dict THEN TRUE
    ELSE LET o == v.dict[Head(p)] IN
         IF IsList(o)
         THEN \E i \in 1..Len(o.list) : MissingKey(o.list[i], Tail(p))
         ELSE MissingKey(o, Tail(p))

\* some branch of v along p reaches a value that is not a mapping while
\* keys remain
RECURSIVE NonMapping(_, _)
NonMapping(v, p) ==
    IF p = <<>> THEN FALSE
    ELSE IF ~IsDict(v) THEN TRUE
    ELSE IF Head(p) \notin DOMAIN v.dict THEN FALSE
    ELSE LET o == v.dict[Head(p)] IN
         IF IsList(o)
         THEN \E i \in 1..Len(o.list) : NonMapping(o.list[i], Tail(p))
         ELSE NonMapping(o, Tail(p))

\* v holds the keys p, through mappings only, and the value there is no list
RECURSIVE HoldsLeaf(_, _)
HoldsLeaf(v, p) ==
    IF p = <<>> THEN ~IsList(v)
    ELSE IsDict(v) /\ Head(p) \in DOMAIN v.dict
         /\ HoldsLeaf(v.dict[Head(p)], Tail(p))

\* the value HoldsLeaf speaks of
RECURSIVE LeafAt(_, _)
LeafAt(v, p) == IF p = <<>> THEN v ELSE LeafAt(v.dict[Head(p)], Tail(p))

\* the first key of p maps to a list of mappings, each holding the
\* remaining keys with a non-list value
FansOut(e, p) ==
    /\ Len(p) >= 2 /\ IsDict(e) /\ Head(p) \in DOMAIN e.dict
    /\ IsList(e.dict[Head(p)])
    /\ \A i \in 1..Len(e.dict[Head(p)].list) :
          LET el == e.dict[Head(p)].list[i] IN
          IsDict(el) /\ HoldsLeaf(el, Tail(p))

FanLeaves(e, p) ==
    LET l == e.dict[Head(p)].list IN [i \in 1..Len(l) |-> LeafAt(l[i], Tail(p))]

FnjDone == fnj.pc = "done"

-----------------------------------------------------------------------------
(* C1 *)

-----------------------------------------------------------------------------
(* C2 *)

\* C2 as stated: whenever a key in the middle of the path maps to a list of
\* mappings that all hold the remaining keys, find_nested_json returns the
\* list of the leaves, one per element in list order.
C2_Original ==
    (FnjDone /\ FansOut(fnj.event, fnj.path))
        => fnj.ret = "list" /\ fnj.results = FanLeaves(fnj.event, fnj.path)

\* C2 amended: the same for a non-empty list; for an empty list the result
\* is None, not an empty list.
C2_FanOut ==
    (FnjDone /\ FansOut(fnj.event, fnj.path))
        => /\ fnj.results = FanLeaves(fnj.event, fnj.path)
           /\ fnj.ret = IF Len(fnj.results) = 0 THEN "None" ELSE "list"

\* {a: [{b: x}, {b: b}]} resolved along [a, b] gives [x, b]
C2_Witness ==
    /\ FnjDone /\ FansOut(fnj.event, fnj.path)
    /\ fnj.ret = "list"
    /\ Len(fnj.results) = 2 /\ fnj.results[1] # fnj.results[2]

-----------------------------------------------------------------------------
(* Vocabulary of the claims about conditions and unlocked *)

Called == call.pc # "idle"

Done == call.pc = "done"

Evaluated == DOMAIN call.evals

Standard == Called /\ ~call.ach.custom

\* the conditions the loop does not pass over
Unproven == call.ach.conditions \ call.satisfied

\* what find_nested_json returns for the payload of the call along p
PathRet(p) == find_nested_json(call.payload, p).ret

\* the value of v along p, through mappings only, is the empty list
RECURSIVE PresentEmptyList(_, _)
PresentEmptyList(v, p) ==
    IF p = <<>> THEN v = List(<<>>)
    ELSE IsDict(v) /\ Head(p) \in DOMAIN v.dict
         /\ PresentEmptyList(v.dict[Head(p)], Tail(p))

\* a non-custom ValueCondition without quantifier, its attribute holding []
EmptyCase(id) ==
    LET c == Conditions[id] IN
    /\ c.kind = "ValueCondition" /\ ~c.custom /\ c.quantifier = "None"
    /\ PresentEmptyList(call.payload, Split(c.attribute))

\* a non-custom AttributeCondition whose attribute number i is the first
\* that does not resolve
AttributeFails(id, i) ==
    LET c == Conditions[id] IN
    /\ c.kind = "AttributeCondition" /\ ~c.custom
    /\ i \in 1..Len(c.attributes)
    /\ PathRet(c.attributes[i]) = "None"
    /\ \A j \in 1..(i - 1) :
         /\ PathRet(c.attributes[j]) = "list"
         /\ (j > Len(c.qualifiers) \/ c.qualifiers[j] = "None")

AttributeFailsSomewhere(id) ==
    /\ Conditions[id].kind = "AttributeCondition"
    /\ \E i \in 1..Len(Conditions[id].attributes) : AttributeFails(id, i)

\* a non-custom ValueCondition whose attribute does not resolve
ValueFails(id) ==
    LET c == Conditions[id] IN
    /\ c.kind = "ValueCondition" /\ ~c.custom
    /\ PathRet(Split(c.attribute)) = "None"

\* every condition is for the event type of the call, none is in satisfied
AllApply ==
    /\ call.satisfied = {}
    /\ \A id \in call.ach.conditions : ~TypeMismatch(Conditions[id], call.event)

\* the loop called every condition and each returned a bool
AllBool ==
    /\ Evaluated = call.ach.conditions
    /\ \A id \in Evaluated : IsBool(call.evals[id].ret)

NumTrue == Cardinality({id \in Evaluated : call.evals[id].ret = "True"})

\* what condition id returns for the payload of the call
WouldRet(id) == Condition_call(Conditions[id], call.payload).ret

NoneAsFalse(r) == IF r = "None" THEN "False" ELSE r

\* the grouping folded over the conditions S, None taken as False
RECURSIVE FoldNoneAsFalse(_, _, _)
FoldNoneAsFalse(grouping, acc, S) ==
    IF S = {} THEN acc
    ELSE LET id == CHOOSE x \in S : TRUE IN
         FoldNoneAsFalse(grouping, Group(grouping, acc, NoneAsFalse(WouldRet(id))),
                         S \ {id})

-----------------------------------------------------------------------------
(* C3 *)

\* C3 as stated: a non-custom ValueCondition without quantifier whose
\* attribute is present and holds an empty list evaluates to true.
C3_Original ==
    Called => \A id \in Evaluated : EmptyCase(id) => call.evals[id].ret = "True"

\* C3 amended: such a condition evaluates to false, without its method being
\* invoked: find_nested_json returns None for an empty result list, so the
\* vacuous all() is never reached.
C3_EmptyIsFalse ==
    Called => \A id \in Evaluated :
        EmptyCase(id) => /\ call.evals[id].ret = "False"
                         /\ call.evals[id].invoked = {"find_nested_json"}

\* the condition "a.b eq x" called on a payload {a: {b: []}, ...}
C3_Witness ==
    Called /\ \E id \in Evaluated : EmptyCase(id) /\ call.evals[id].ret = "False"

-----------------------------------------------------------------------------
(* C4 *)

-----------------------------------------------------------------------------
(* C5 *)

\* C5: a non-custom XOR achievement with 3 conditions, all for the event
\* type and none in satisfied, exactly two of them satisfied by the payload,
\* is not unlocked.
C5_XorTwoOfThree ==
    (/\ Done /\ Standard /\ call.ach.grouping = "__xor__"
     /\ Cardinality(call.ach.conditions) = 3
     /\ AllApply /\ AllBool /\ NumTrue = 2)
        => call.ret = "False"

-----------------------------------------------------------------------------
(* C6 *)

\* C6: a non-custom OR achievement with at least one condition, all for the
\* event type and none in satisfied, is unlocked exactly when at least one
\* condition is satisfied by the payload.
C6_OrDecides ==
    (/\ Done /\ Standard /\ call.ach.grouping = "__or__"
     /\ call.ach.conditions # {}
     /\ AllApply /\ AllBool)
        => call.ret = PyBool(NumTrue >= 1)

-----------------------------------------------------------------------------
(* C7 *)

\* C7: when a condition that is not in satisfied is for another event type,
\* a non-custom achievement is not unlocked, whatever the payload, the
\* grouping, the order of the conditions and whatever the conditions called
\* return (True, False or None).
C7_MismatchIsFalse ==
    (/\ Done /\ Standard
     /\ \E id \in Unproven : TypeMismatch(Conditions[id], call.event)
     /\ \A id \in Evaluated : call.evals[id].ret \in {"True", "False", "None"})
        => call.ret = "False"

-----------------------------------------------------------------------------
(* C8 *)

\* C8: a non-custom AND achievement all of whose conditions are in satisfied
\* is unlocked without any condition being called, whatever the event type
\* and the payload.
C8_AllSatisfied ==
    (/\ Called /\ Standard /\ call.ach.grouping = "__and__"
     /\ call.ach.conditions \subseteq call.satisfied)
        => /\ Evaluated = {}
           /\ call.passed = "True"
           /\ Done => call.ret = "True"

\* a finished call with two or more conditions, all in satisfied, one of
\* them for another event type than the call's
C8_Witness ==
    /\ Done /\ Standard /\ call.ach.grouping = "__and__"
    /\ Cardinality(call.ach.conditions) >= 2
    /\ call.ach.conditions \subseteq call.satisfied
    /\ \E id \in call.ach.conditions : TypeMismatch(Conditions[id], call.event)
    /\ call.ret = "True"

-----------------------------------------------------------------------------
(* C9 *)

\* C9: unlocked on a custom achievement returns False at once, for every
\* event type, payload, grouping, set of conditions and satisfied set, and
\* calls no condition.
C9_CustomNeverUnlocks ==
    (Called /\ call.ach.custom)
        => Done /\ call.ret = "False" /\ Evaluated = {}
           /\ call.todo = call.ach.conditions

\* a custom OR achievement with conditions, none of them in satisfied
C9_Witness ==
    /\ Done /\ call.ach.custom /\ call.ach.grouping = "__or__"
    /\ call.ach.conditions # {} /\ call.satisfied = {}
    /\ call.ret = "False"

-----------------------------------------------------------------------------
(* C10 *)

\* C10: when an AttributeCondition called inside unlocked returns None,
\* unlocked completes without error and returns the decision it would
\* return had that condition returned False.
C10_NoneIsFalsy ==
    (/\ Done /\ Standard
     /\ \A id \in Unproven :
          /\ ~TypeMismatch(Conditions[id], call.event)
          /\ WouldRet(id) \in {"True", "False", "None"}
     /\ \E id \in Evaluated :
          /\ Conditions[id].kind = "AttributeCondition"
          /\ call.evals[id].ret = "None")
        => call.ret = FoldNoneAsFalse(call.ach.grouping, "True", Unproven)

-----------------------------------------------------------------------------
(* C11 *)

\* C11: evaluation is side-effect-free.  Calling a condition object leaves
\* its stored attribute paths as they were, and every call of the same
\* object on the same event returns what the first call returned.
C11_SideEffectFree ==
    call.pc = "object"
        => /\ call.attributes = LoadedAttributes(call.id)
           /\ \A i \in 1..Len(call.rets) : call.rets[i] = call.rets[1]

-----------------------------------------------------------------------------
(* C12 *)

\* C12: a path that cannot be followed is a soft failure.  When some branch
\* of the event reaches a value that is not a mapping (a number, a string,
\* null) while keys of the path remain, find_nested_json returns None and
\* does not raise.
C12_SoftFailure ==
    (FnjDone /\ NonMapping(fnj.event, fnj.path)) => fnj.ret = "None"

-----------------------------------------------------------------------------
(* C13 *)

\* the value of v along p, through mappings only, is a non-empty list
RECURSIVE EndsInList(_, _)
EndsInList(v, p) ==
    IF p = <<>> THEN IsList(v) /\ Len(v.list) > 0
    ELSE IsDict(v) /\ Head(p) \in DOMAIN v.dict
         /\ EndsInList(v.dict[Head(p)], Tail(p))

\* C13: when the final key of the path maps to a non-empty list,
\* find_nested_json returns the elements of that list, one result per
\* element: the entries the fan-out enqueued have no keys left and each
\* contributes its value.
C13_LastKeyList ==
    (FnjDone /\ Len(fnj.path) > 0 /\ EndsInList(fnj.event, fnj.path))
        => /\ fnj.ret = "list"
           /\ fnj.results = LeafAt(fnj.event, fnj.path).list

====
